---- MODULE Spec2Model ----
(***************************************************************************)
(* Model of Triangle.cpp: a GLFW/GLEW program whose main() initialises     *)
(* the windowing library, uploads one triangle, links a shader program and *)
(* runs a render loop that polls the keyboard, moves the triangle          *)
(* horizontally and animates a half-sine jump.                             *)
(*                                                                         *)
(* Numbers.  Every C++ float is modelled by the integer n such that the    *)
(* float's value is n * 2^-30 (all floats that occur are exact multiples   *)
(* of 2^-30 and smaller than 2 in magnitude).  Float addition is the exact *)
(* integer sum followed by RoundF, IEEE-754 binary32 round-to-nearest-even.*)
(* Clock readings are multiples of a quarter second (exact as floats) and  *)
(* are kept as a number of quarter seconds.                                *)
(***************************************************************************)
EXTENDS Integers, FiniteSets, Sequences, TLC

(* ------------------------------ bounds --------------------------------- *)
\* last clock reading (in quarter seconds) the model lets glfwGetTime return
MaxTime == 5
\* the keyboard is only driven so that |#Right frames - #Left frames| <= MaxNet
MaxNet == 4

(* ------------------------- program constants --------------------------- *)
\* 1.0f in units of 2^-30
One == 1073741824
\* 0.01f = 0x3C23D70A = 10737418 * 2^-30
Cent == 10737418
\* -1.0f, the initial translationX
InitialX == -1073741824
\* -0.75f, the initial (and only) translationY
InitialY == -805306368
\* jumpDuration = 1.0f second = 4 quarter seconds
jumpDuration == 4
\* a binary32 significand has 24 bits: values below 2^24 units are exact
Exact24 == 16777216
\* 2^23: a value in [2^k, 2^(k+1)) is rounded to a multiple of 2^k / 2^23
Frac23 == 8388608

\* names the GL hands out for the two shader objects and the program object
VertexShaderName == 1
FragmentShaderName == 2
ProgramName == 3

Keys == {"ESCAPE", "LEFT", "RIGHT", "SPACE"}
Resources == {"VAO", "VBO", "shaderProgram"}
ShaderTypes == {"GL_VERTEX_SHADER", "GL_FRAGMENT_SHADER"}

(* --------------------- single-precision arithmetic --------------------- *)
Abs(n) == IF n < 0 THEN -n ELSE n

RECURSIVE Pow2Floor(_)
\* the largest power of two not above a (a >= 1)
Pow2Floor(a) == IF a < 2 THEN 1 ELSE 2 * Pow2Floor(a \div 2)

\* spacing of binary32 values around magnitude a (in units of 2^-30)
Ulp(a) == IF a < Exact24 THEN 1 ELSE Pow2Floor(a) \div Frac23

\* round-to-nearest, ties-to-even, onto the binary32 grid
RoundF(n) ==
    LET a == Abs(n)
        u == Ulp(a)
        q == a \div u
        r == a % u
        m == IF 2 * r > u \/ (2 * r = u /\ q % 2 = 1) THEN (q + 1) * u ELSE q * u
    IN  IF n < 0 THEN -m ELSE m

\* float + float and float - float
FAdd(a, b) == RoundF(a + b)
FSub(a, b) == RoundF(a - b)

(* ------------------------------ matrices ------------------------------- *)
\* identityMatrix: 1 on the diagonal (i % 5 == 0), 0 elsewhere
identityMatrix == [i \in 0..15 |-> IF i % 5 = 0 THEN One ELSE 0]

\* cosf / sinf of angle * M_PI / 180 for the only angle the program uses
CosfDeg(angle) == CASE angle = 0 -> One
SinfDeg(angle) == CASE angle = 0 -> 0

createRotationMatrix(angle) ==
    [identityMatrix EXCEPT ![0] = CosfDeg(angle), ![1] = -SinfDeg(angle),
                           ![4] = SinfDeg(angle), ![5] = CosfDeg(angle)]

createTranslationMatrix_Transposed(x, y) ==
    [identityMatrix EXCEPT ![12] = x, ![13] = y]

createTranslationMatrix(x, y) ==
    [identityMatrix EXCEPT ![3] = x, ![7] = y]

createScalingMatrix(scaleX, scaleY) ==
    [identityMatrix EXCEPT ![0] = scaleX, ![5] = scaleY]

(* ------------------------------ jump curve ----------------------------- *)
\* sinf(jumpProgress * M_PI) for jumpProgress = p / jumpDuration, p in 0..3:
\* sinf(0) = 0, sinf(0.7853982f) = 0.70710677f, sinf(1.5707964f) = 1.0f,
\* sinf(2.3561945f) = 0.70710677f
SinfPi(p) == CASE p = 0 -> 0
               [] p = 1 -> 759250112
               [] p = 2 -> One
               [] p = 3 -> 759250112

MulHalf_Missing(v) == v

\* float * 0.5f (exact: every value above is even)
MulHalf(v) == v \div 2

(* ------------------------------- state --------------------------------- *)
VARIABLES
    pc,             \* position of main()
    glfwState,      \* "uninit", "ok", "failed", "terminated"
    window,         \* "none", "open", "destroyed"
    glewState,      \* "uninit", "ok", "failed"
    gpu,            \* VAO / VBO / shaderProgram: "none", "live", "deleted"
    releases,       \* how many times each of them was passed to glDelete*
    shaderObj,      \* the two shader objects: "none", "live", "deleted"
    compiled,       \* GL_COMPILE_STATUS of each shader object
    linked,         \* GL_LINK_STATUS of the program object
    vertexShader,   \* handle compileShader returned (0 before)
    fragmentShader, \* handle compileShader returned (0 before)
    shaderProgram,  \* handle createShaderProgram holds / returned (0 before)
    errLog,         \* messages written to std::cerr
    translationX, translationY, rotationAngle,
    isJumping, jumpHeight, jumpStartTime,
    lastFrame, currentFrame,
    keys,           \* keys GLFW reports as pressed (changed by glfwPollEvents)
    shouldClose,    \* the window's close flag
    uploaded,       \* value of the "transform" uniform, <<>> before any upload
    drawn,          \* TRUE once glDrawArrays ran in the current frame
    exitStatus,     \* <<>> while running, <<s>> once main returned s
    net             \* history: #frames that added Cent - #frames that subtracted it

vars == <<pc, glfwState, window, glewState, gpu, releases, shaderObj, compiled,
          linked, vertexShader, fragmentShader, shaderProgram, errLog,
          translationX, translationY, rotationAngle, isJumping, jumpHeight,
          jumpStartTime, lastFrame, currentFrame, keys, shouldClose, uploaded,
          drawn, exitStatus, net>>

initVars == <<glfwState, window, glewState>>
gpuVars == <<gpu, releases>>
shaderVars == <<shaderObj, compiled, linked, vertexShader, fragmentShader, shaderProgram>>
moveVars == <<translationX, translationY, rotationAngle, net>>
jumpVars == <<isJumping, jumpHeight, jumpStartTime>>
timeVars == <<lastFrame, currentFrame>>
inputVars == <<keys, shouldClose>>

Init ==
    /\ pc = "glfwInit"
    /\ glfwState = "uninit"
    /\ window = "none"
    /\ glewState = "uninit"
    /\ gpu = [r \in Resources |-> "none"]
    /\ releases = [r \in Resources |-> 0]
    /\ shaderObj = [t \in ShaderTypes |-> "none"]
    /\ compiled = [t \in ShaderTypes |-> FALSE]
    /\ linked = FALSE
    /\ vertexShader = 0
    /\ fragmentShader = 0
    /\ shaderProgram = 0
    /\ errLog = {}
    /\ translationX = InitialX
    /\ translationY = InitialY
    /\ rotationAngle = 0
    /\ isJumping = FALSE
    /\ jumpHeight = 0
    /\ jumpStartTime = 0
    /\ lastFrame = 0
    /\ currentFrame = 0
    /\ keys = {}
    /\ shouldClose = FALSE
    /\ uploaded = <<>>
    /\ drawn = FALSE
    /\ exitStatus = <<>>
    /\ net = 0

(* --------------------------- initialisation ---------------------------- *)
\* main() returns -1
ExitFailure(msg) ==
    /\ errLog' = errLog \cup {msg}
    /\ exitStatus' = <<-1>>
    /\ pc' = "done"

\* if (!glfwInit()) { ...; return -1; }
GlfwInit ==
    /\ pc = "glfwInit"
    /\ \E ok \in BOOLEAN :
         IF ok
         THEN /\ glfwState' = "ok"
              /\ pc' = "createWindow"
              /\ UNCHANGED <<errLog, exitStatus>>
         ELSE /\ glfwState' = "failed"
              /\ ExitFailure("Failed to initialize GLFW")
    /\ UNCHANGED <<window, glewState, gpuVars, shaderVars, moveVars, jumpVars,
                   timeVars, inputVars, uploaded, drawn>>

\* glfwCreateWindow; on failure glfwTerminate and return -1; else make the
\* context current
CreateWindow ==
    /\ pc = "createWindow"
    /\ \E ok \in BOOLEAN :
         IF ok
         THEN /\ window' = "open"
              /\ pc' = "glewInit"
              /\ UNCHANGED <<glfwState, errLog, exitStatus>>
         ELSE /\ window' = window
              /\ glfwState' = "terminated"
              /\ ExitFailure("Failed to create GLFW window")
    /\ UNCHANGED <<glewState, gpuVars, shaderVars, moveVars, jumpVars,
                   timeVars, inputVars, uploaded, drawn>>

GlewInit_NoReturn ==
    /\ pc = "glewInit"
    /\ \E ok \in BOOLEAN :
         IF ok
         THEN /\ glewState' = "ok"
              /\ pc' = "genBuffers"
              /\ UNCHANGED <<glfwState, window, errLog, exitStatus>>
         ELSE /\ glewState' = "failed"
              /\ errLog' = errLog \cup {"Failed to initialize GLEW"}
              /\ pc' = "genBuffers"
              /\ UNCHANGED <<glfwState, window, exitStatus>>
    /\ UNCHANGED <<gpuVars, shaderVars, moveVars, jumpVars,
                   timeVars, inputVars, uploaded, drawn>>

\* glewInit; on failure glfwTerminate (which destroys the window) and return -1
GlewInit ==
    /\ pc = "glewInit"
    /\ \E ok \in BOOLEAN :
         IF ok
         THEN /\ glewState' = "ok"
              /\ pc' = "genBuffers"
              /\ UNCHANGED <<glfwState, window, errLog, exitStatus>>
         ELSE /\ glewState' = "failed"
              /\ glfwState' = "terminated"
              /\ window' = "destroyed"
              /\ ExitFailure("Failed to initialize GLEW")
    /\ UNCHANGED <<gpuVars, shaderVars, moveVars, jumpVars,
                   timeVars, inputVars, uploaded, drawn>>

\* glGenVertexArrays, glGenBuffers and the upload of the nine vertex floats
GenBuffers ==
    /\ pc = "genBuffers"
    /\ gpu' = [gpu EXCEPT !["VAO"] = "live", !["VBO"] = "live"]
    /\ pc' = "compileVertex"
    /\ UNCHANGED <<initVars, releases, shaderVars, errLog, moveVars, jumpVars,
                   timeVars, inputVars, uploaded, drawn, exitStatus>>

(* ------------------------------- shaders ------------------------------- *)
ShaderName(type) == IF type = "GL_VERTEX_SHADER" THEN VertexShaderName
                                                   ELSE FragmentShaderName

\* compileShader(type, source) when the driver reports compile status ok:
\* the handle is returned in both cases, a failure only writes the log
compileShader(type, ok) ==
    [shader |-> ShaderName(type),
     status |-> ok,
     log    |-> IF ok THEN {} ELSE {"ERROR::SHADER::COMPILATION_FAILED"}]

CompileInto(type, ok) ==
    LET r == compileShader(type, ok)
    IN  /\ shaderObj' = [shaderObj EXCEPT ![type] = "live"]
        /\ compiled' = [compiled EXCEPT ![type] = r.status]
        /\ errLog' = errLog \cup r.log
        /\ IF type = "GL_VERTEX_SHADER"
           THEN vertexShader' = r.shader /\ UNCHANGED fragmentShader
           ELSE fragmentShader' = r.shader /\ UNCHANGED vertexShader

\* GLuint vertexShader = compileShader(GL_VERTEX_SHADER, vertexShaderSource);
CompileVertex ==
    /\ pc = "compileVertex"
    /\ \E ok \in BOOLEAN : CompileInto("GL_VERTEX_SHADER", ok)
    /\ pc' = "compileFragment"
    /\ UNCHANGED <<initVars, gpuVars, linked, shaderProgram, moveVars, jumpVars,
                   timeVars, inputVars, uploaded, drawn, exitStatus>>

\* GLuint fragmentShader = compileShader(GL_FRAGMENT_SHADER, fragmentShaderSource);
CompileFragment ==
    /\ pc = "compileFragment"
    /\ \E ok \in BOOLEAN : CompileInto("GL_FRAGMENT_SHADER", ok)
    /\ pc' = "linkProgram"
    /\ UNCHANGED <<initVars, gpuVars, linked, shaderProgram, moveVars, jumpVars,
                   timeVars, inputVars, uploaded, drawn, exitStatus>>

\* glCreateProgram, glAttachShader x2, glLinkProgram and the link-status
\* check; a program with a shader that did not compile cannot link
LinkProgram ==
    /\ pc = "linkProgram"
    /\ shaderProgram' = ProgramName
    /\ gpu' = [gpu EXCEPT !["shaderProgram"] = "live"]
    /\ \E ok \in BOOLEAN :
         /\ ok => \A t \in ShaderTypes : compiled[t]
         /\ linked' = ok
         /\ errLog' = IF ok THEN errLog
                            ELSE errLog \cup {"ERROR::SHADER::PROGRAM::LINKING_FAILED"}
    /\ pc' = "deleteShaders"
    /\ UNCHANGED <<initVars, releases, shaderObj, compiled, vertexShader,
                   fragmentShader, moveVars, jumpVars, timeVars, inputVars,
                   uploaded, drawn, exitStatus>>

DeleteShaders_OnlyOnSuccess ==
    /\ pc = "deleteShaders"
    /\ shaderObj' = IF linked THEN [t \in ShaderTypes |-> "deleted"] ELSE shaderObj
    /\ compiled' = [t \in ShaderTypes |-> FALSE]
    /\ pc' = "useProgram"
    /\ UNCHANGED <<initVars, gpuVars, linked, vertexShader, fragmentShader,
                   shaderProgram, errLog, moveVars, jumpVars, timeVars,
                   inputVars, uploaded, drawn, exitStatus>>

\* glDeleteShader(vertexShader); glDeleteShader(fragmentShader); the code has
\* no condition here.  The compile status of a deleted object is not kept.
DeleteShaders ==
    /\ pc = "deleteShaders"
    /\ shaderObj' = [t \in ShaderTypes |-> "deleted"]
    /\ compiled' = [t \in ShaderTypes |-> FALSE]
    /\ pc' = "useProgram"
    /\ UNCHANGED <<initVars, gpuVars, linked, vertexShader, fragmentShader,
                   shaderProgram, errLog, moveVars, jumpVars, timeVars,
                   inputVars, uploaded, drawn, exitStatus>>

\* return shaderProgram; glUseProgram(shaderProgram); the locals of main are
\* then initialised (their values are those of Init) and the loop is reached
UseProgram ==
    /\ pc = "useProgram"
    /\ pc' = "loopCheck"
    /\ UNCHANGED <<initVars, gpuVars, shaderVars, errLog, moveVars, jumpVars,
                   timeVars, inputVars, uploaded, drawn, exitStatus>>

(* ----------------------------- render loop ----------------------------- *)
\* while (!glfwWindowShouldClose(window)): the condition holds, a frame begins
LoopEnter ==
    /\ pc = "loopCheck"
    /\ ~shouldClose
    /\ drawn' = FALSE
    /\ pc' = "readTime"
    /\ UNCHANGED <<initVars, gpuVars, shaderVars, errLog, moveVars, jumpVars,
                   timeVars, inputVars, uploaded, exitStatus>>

\* while (!glfwWindowShouldClose(window)): the condition fails, the loop exits
LoopExit ==
    /\ pc = "loopCheck"
    /\ shouldClose
    /\ pc' = "deleteVAO"
    /\ UNCHANGED <<initVars, gpuVars, shaderVars, errLog, moveVars, jumpVars,
                   timeVars, inputVars, uploaded, drawn, exitStatus>>

\* float currentFrame = glfwGetTime(); lastFrame = currentFrame;  the clock
\* never runs backwards.  (deltaTime is written here and read nowhere; it is
\* left out of the state.)
ReadTime ==
    /\ pc = "readTime"
    /\ \E t \in lastFrame..MaxTime :
         /\ currentFrame' = t
         /\ lastFrame' = t
    /\ pc' = "pollEscape"
    /\ UNCHANGED <<initVars, gpuVars, shaderVars, errLog, moveVars, jumpVars,
                   inputVars, uploaded, drawn, exitStatus>>

PollEscape_Break ==
    /\ pc = "pollEscape"
    /\ IF "ESCAPE" \in keys
       THEN shouldClose' = TRUE /\ pc' = "loopCheck"
       ELSE shouldClose' = shouldClose /\ pc' = "pollLeft"
    /\ UNCHANGED <<initVars, gpuVars, shaderVars, errLog, moveVars, jumpVars,
                   timeVars, keys, uploaded, drawn, exitStatus>>

\* if (glfwGetKey(window, GLFW_KEY_ESCAPE) == GLFW_PRESS)
\*     glfwSetWindowShouldClose(window, true);
PollEscape ==
    /\ pc = "pollEscape"
    /\ shouldClose' = (shouldClose \/ "ESCAPE" \in keys)
    /\ pc' = "pollLeft"
    /\ UNCHANGED <<initVars, gpuVars, shaderVars, errLog, moveVars, jumpVars,
                   timeVars, keys, uploaded, drawn, exitStatus>>

PollLeft_WrongSign ==
    /\ pc = "pollLeft"
    /\ IF "LEFT" \in keys
       THEN translationX' = FAdd(translationX, Cent) /\ net' = net - 1
       ELSE UNCHANGED <<translationX, net>>
    /\ pc' = "pollRight"
    /\ UNCHANGED <<initVars, gpuVars, shaderVars, errLog, translationY,
                   rotationAngle, jumpVars, timeVars, inputVars, uploaded,
                   drawn, exitStatus>>

\* if (glfwGetKey(window, GLFW_KEY_LEFT) == GLFW_PRESS) translationX -= 0.01f;
PollLeft ==
    /\ pc = "pollLeft"
    /\ IF "LEFT" \in keys
       THEN translationX' = FSub(translationX, Cent) /\ net' = net - 1
       ELSE UNCHANGED <<translationX, net>>
    /\ pc' = "pollRight"
    /\ UNCHANGED <<initVars, gpuVars, shaderVars, errLog, translationY,
                   rotationAngle, jumpVars, timeVars, inputVars, uploaded,
                   drawn, exitStatus>>

\* if (glfwGetKey(window, GLFW_KEY_RIGHT) == GLFW_PRESS) translationX += 0.01f;
PollRight ==
    /\ pc = "pollRight"
    /\ IF "RIGHT" \in keys
       THEN translationX' = FAdd(translationX, Cent) /\ net' = net + 1
       ELSE UNCHANGED <<translationX, net>>
    /\ pc' = "pollSpace"
    /\ UNCHANGED <<initVars, gpuVars, shaderVars, errLog, translationY,
                   rotationAngle, jumpVars, timeVars, inputVars, uploaded,
                   drawn, exitStatus>>

PollSpace_NoGuard ==
    /\ pc = "pollSpace"
    /\ IF "SPACE" \in keys
       THEN isJumping' = TRUE /\ jumpStartTime' = currentFrame
       ELSE UNCHANGED <<isJumping, jumpStartTime>>
    /\ pc' = "handleJump"
    /\ UNCHANGED <<initVars, gpuVars, shaderVars, errLog, moveVars, jumpHeight,
                   timeVars, inputVars, uploaded, drawn, exitStatus>>

\* if (glfwGetKey(window, GLFW_KEY_SPACE) == GLFW_PRESS && !isJumping)
\*     { isJumping = true; jumpStartTime = currentFrame; }
PollSpace ==
    /\ pc = "pollSpace"
    /\ IF "SPACE" \in keys /\ ~isJumping
       THEN isJumping' = TRUE /\ jumpStartTime' = currentFrame
       ELSE UNCHANGED <<isJumping, jumpStartTime>>
    /\ pc' = "handleJump"
    /\ UNCHANGED <<initVars, gpuVars, shaderVars, errLog, moveVars, jumpHeight,
                   timeVars, inputVars, uploaded, drawn, exitStatus>>

\* (currentFrame - jumpStartTime) in quarter seconds; jumpProgress itself is
\* this number divided by jumpDuration, so jumpProgress < 1.0f is
\* JumpTicks < jumpDuration
JumpTicks == currentFrame - jumpStartTime

HandleJump_NoReset ==
    /\ pc = "handleJump"
    /\ IF isJumping
       THEN IF JumpTicks < jumpDuration
            THEN jumpHeight' = MulHalf(SinfPi(JumpTicks)) /\ UNCHANGED isJumping
            ELSE jumpHeight' = jumpHeight /\ isJumping' = FALSE
       ELSE UNCHANGED <<isJumping, jumpHeight>>
    /\ pc' = "uploadTransform"
    /\ UNCHANGED <<initVars, gpuVars, shaderVars, errLog, moveVars,
                   jumpStartTime, timeVars, inputVars, uploaded, drawn,
                   exitStatus>>

HandleJump_NoEnd ==
    /\ pc = "handleJump"
    /\ IF isJumping
       THEN IF JumpTicks < jumpDuration
            THEN jumpHeight' = MulHalf(SinfPi(JumpTicks)) /\ UNCHANGED isJumping
            ELSE jumpHeight' = 0 /\ UNCHANGED isJumping
       ELSE UNCHANGED <<isJumping, jumpHeight>>
    /\ pc' = "uploadTransform"
    /\ UNCHANGED <<initVars, gpuVars, shaderVars, errLog, moveVars,
                   jumpStartTime, timeVars, inputVars, uploaded, drawn,
                   exitStatus>>

\* if (isJumping) { jumpProgress = (currentFrame - jumpStartTime) / jumpDuration;
\*   if (jumpProgress < 1.0f) jumpHeight = sinf(jumpProgress * M_PI) * 0.5f;
\*   else { jumpHeight = 0.0f; isJumping = false; } }
HandleJump ==
    /\ pc = "handleJump"
    /\ IF isJumping
       THEN IF JumpTicks < jumpDuration
            THEN jumpHeight' = MulHalf(SinfPi(JumpTicks)) /\ UNCHANGED isJumping
            ELSE jumpHeight' = 0 /\ isJumping' = FALSE
       ELSE UNCHANGED <<isJumping, jumpHeight>>
    /\ pc' = "uploadTransform"
    /\ UNCHANGED <<initVars, gpuVars, shaderVars, errLog, moveVars,
                   jumpStartTime, timeVars, inputVars, uploaded, drawn,
                   exitStatus>>

\* transform, rotation and finalTransform are rebuilt; finalTransform is a
\* copy of transform alone and is what glUniformMatrix4fv uploads.  y is the
\* float sum translationY + jumpHeight, computed once as the call does
UploadTransform ==
    /\ pc = "uploadTransform"
    /\ \E y \in {FAdd(translationY, jumpHeight)} :
         LET transform == createTranslationMatrix(translationX, y)
             rotation == createRotationMatrix(rotationAngle)
             finalTransform == [i \in 0..15 |-> transform[i]]
         IN  uploaded' = finalTransform
    /\ pc' = "draw"
    /\ UNCHANGED <<initVars, gpuVars, shaderVars, errLog, moveVars, jumpVars,
                   timeVars, inputVars, drawn, exitStatus>>

\* glClear, glUseProgram, glBindVertexArray, glDrawArrays, glBindVertexArray(0)
Draw ==
    /\ pc = "draw"
    /\ drawn' = TRUE
    /\ pc' = "swapPoll"
    /\ UNCHANGED <<initVars, gpuVars, shaderVars, errLog, moveVars, jumpVars,
                   timeVars, inputVars, uploaded, exitStatus>>

\* the key sets the model lets the user hold: the net count stays within MaxNet
NetRoom(k) ==
    /\ ("LEFT" \in k /\ "RIGHT" \notin k) => net > -MaxNet
    /\ ("RIGHT" \in k /\ "LEFT" \notin k) => net < MaxNet

\* glfwSwapBuffers(window); glfwPollEvents();  the events processed set the
\* key states the next frame reads and may raise the close flag
SwapAndPoll ==
    /\ pc = "swapPoll"
    /\ \E k \in SUBSET Keys, closeSignal \in BOOLEAN :
         /\ NetRoom(k)
         /\ keys' = k
         /\ shouldClose' = (shouldClose \/ closeSignal)
    /\ pc' = "loopCheck"
    /\ UNCHANGED <<initVars, gpuVars, shaderVars, errLog, moveVars, jumpVars,
                   timeVars, uploaded, drawn, exitStatus>>

(* ------------------------------- cleanup ------------------------------- *)
Release(r) ==
    /\ gpu' = [gpu EXCEPT ![r] = "deleted"]
    /\ releases' = [releases EXCEPT ![r] = @ + 1]

\* glDeleteVertexArrays(1, &VAO);
DeleteVertexArrays ==
    /\ pc = "deleteVAO"
    /\ Release("VAO")
    /\ pc' = "deleteVBO"
    /\ UNCHANGED <<initVars, shaderVars, errLog, moveVars, jumpVars, timeVars,
                   inputVars, uploaded, drawn, exitStatus>>

DeleteBuffers_Skipped ==
    /\ pc = "deleteVBO"
    /\ pc' = "deleteProgram"
    /\ UNCHANGED <<initVars, gpuVars, shaderVars, errLog, moveVars, jumpVars,
                   timeVars, inputVars, uploaded, drawn, exitStatus>>

\* glDeleteBuffers(1, &VBO);
DeleteBuffers ==
    /\ pc = "deleteVBO"
    /\ Release("VBO")
    /\ pc' = "deleteProgram"
    /\ UNCHANGED <<initVars, shaderVars, errLog, moveVars, jumpVars, timeVars,
                   inputVars, uploaded, drawn, exitStatus>>

\* glDeleteProgram(shaderProgram);
DeleteProgram ==
    /\ pc = "deleteProgram"
    /\ Release("shaderProgram")
    /\ pc' = "destroyWindow"
    /\ UNCHANGED <<initVars, shaderVars, errLog, moveVars, jumpVars, timeVars,
                   inputVars, uploaded, drawn, exitStatus>>

\* glfwDestroyWindow(window);
DestroyWindow ==
    /\ pc = "destroyWindow"
    /\ window' = "destroyed"
    /\ pc' = "terminate"
    /\ UNCHANGED <<glfwState, glewState, gpuVars, shaderVars, errLog, moveVars,
                   jumpVars, timeVars, inputVars, uploaded, drawn, exitStatus>>

\* glfwTerminate(); return 0;
Terminate ==
    /\ pc = "terminate"
    /\ glfwState' = "terminated"
    /\ exitStatus' = <<0>>
    /\ pc' = "done"
    /\ UNCHANGED <<window, glewState, gpuVars, shaderVars, errLog, moveVars,
                   jumpVars, timeVars, inputVars, uploaded, drawn>>

(* ---------------------------- specification ---------------------------- *)
Next ==
    \/ GlfwInit
    \/ CreateWindow
    \/ GlewInit
    \/ GenBuffers
    \/ CompileVertex
    \/ CompileFragment
    \/ LinkProgram
    \/ DeleteShaders
    \/ UseProgram
    \/ LoopEnter
    \/ LoopExit
    \/ ReadTime
    \/ PollEscape
    \/ PollLeft
    \/ PollRight
    \/ PollSpace
    \/ HandleJump
    \/ UploadTransform
    \/ Draw
    \/ SwapAndPoll
    \/ DeleteVertexArrays
    \/ DeleteBuffers
    \/ DeleteProgram
    \/ DestroyWindow
    \/ Terminate

Spec == Init /\ [][Next]_vars

\* The loop runs on (main is one thread that never blocks for long) and the
\* clock keeps advancing until the last reading the model allows.
ReadTimeAdvance == ReadTime /\ currentFrame' > lastFrame

LiveSpec == Init /\ [][Next]_vars /\ WF_vars(Next) /\ SF_vars(ReadTimeAdvance)

(* ------------------------------ properties ----------------------------- *)
FrameSteps == {"readTime", "pollEscape", "pollLeft", "pollRight", "pollSpace",
               "handleJump", "uploadTransform", "draw", "swapPoll"}
LoopSteps == FrameSteps \cup {"loopCheck"}
CleanupSteps == {"deleteVAO", "deleteVBO", "deleteProgram", "destroyWindow",
                 "terminate"}
CompileFailed == "ERROR::SHADER::COMPILATION_FAILED" \in errLog
LinkFailed == "ERROR::SHADER::PROGRAM::LINKING_FAILED" \in errLog

\* C1: in a frame that begins with the jump active, the Space-polling step
\* leaves isJumping and jumpStartTime unchanged whatever keys are held; a jump
\* starts (isJumping rises, jumpStartTime is written) only in the Space-polling
\* step of a frame that began with isJumping = FALSE.
C1_SpaceNoRestart ==
    [][ /\ (pc = "pollSpace" /\ isJumping)
            => (isJumping' /\ jumpStartTime' = jumpStartTime)
        /\ (jumpStartTime' # jumpStartTime \/ (~isJumping /\ isJumping'))
            => (pc = "pollSpace" /\ ~isJumping /\ "SPACE" \in keys) ]_vars

\* Space is held in a frame whose jump began at an earlier clock reading, and
\* the Space-polling step has run
C1_Witness ==
    /\ pc = "handleJump"
    /\ isJumping
    /\ "SPACE" \in keys
    /\ jumpStartTime < currentFrame

\* C2: at every frame boundary (before the first frame and after each frame)
\* isJumping = FALSE implies jumpHeight = 0.
C2_HeightZeroWhenIdle ==
    (pc = "loopCheck" /\ ~isJumping) => jumpHeight = 0

\* a frame boundary after a jump that started at a positive time has ended
C2_Witness ==
    /\ pc = "loopCheck"
    /\ drawn
    /\ ~isJumping
    /\ jumpStartTime > 0
    /\ jumpHeight = 0

\* the half-sine arc in units of 2^-30, by quarter of the jump:
\* 0, 0.35355338, 0.5, 0.35355338
C3_Arc(p) == CASE p = 0 -> 0
               [] p = 1 -> 379625056
               [] p = 2 -> 536870912
               [] p = 3 -> 379625056

\* C3: in a frame with the jump active, progress < 1 sets jumpHeight to
\* sin(progress*pi)*0.5 (0 at progress 0, 0.5 at progress 0.5) and keeps the
\* jump active; progress >= 1 sets jumpHeight to 0 and isJumping to FALSE.
C3_JumpCurve ==
    [][ (pc = "handleJump" /\ isJumping) =>
          IF currentFrame - jumpStartTime < jumpDuration
          THEN isJumping' /\ jumpHeight' = C3_Arc(currentFrame - jumpStartTime)
          ELSE ~isJumping' /\ jumpHeight' = 0 ]_vars

\* the peak: half way through the jump the height is 0.5
C3_Witness ==
    /\ pc = "uploadTransform"
    /\ isJumping
    /\ 2 * (currentFrame - jumpStartTime) = jumpDuration
    /\ jumpHeight = 536870912

\* the binary32 value nearest to -1.0 + 0.01 * n (the real number
\* -2^30 + n * 10737418.24 in units of 2^-30, rounded)
NearestFloatOffset(n) == RoundF(InitialX + n * Cent + (n * 24) \div 100)

\* C4 as stated: the offset equals -1.0 + 0.01 * (Right frames - Left frames)
C4_Original == translationX = NearestFloatOffset(net)

\* what x -= 0.01f / x += 0.01f changes a float of magnitude in [0.5, 2) by:
\* 10737408 * 2^-30 = 0.0099999905
C4_RoundedStep == Cent - 10

\* C4 amended: translationX starts at -1.0 and each frame applies the
\* single-precision updates, so that it always equals
\* -1.0 + 0.0099999905 * (Right frames - Left frames); a frame with both keys
\* or neither leaves it unchanged and only the Left and Right polling steps
\* change it.
C4_Amended ==
    /\ [](translationX = InitialX + net * C4_RoundedStep)
    /\ [][ /\ translationX' # translationX => pc \in {"pollLeft", "pollRight"}
           /\ (pc = "pollLeft" /\ "LEFT" \notin keys) => translationX' = translationX
           /\ (pc = "pollRight" /\ "RIGHT" \notin keys) => translationX' = translationX
           /\ (pc = "pollRight" /\ {"LEFT", "RIGHT"} \subseteq keys)
                => translationX' = translationX + C4_RoundedStep ]_vars

\* four net Right frames: the offset is -0.96000004, one float below -0.96
C4_Witness ==
    /\ pc = "loopCheck"
    /\ net = 4
    /\ translationX = -1030792192
    /\ translationX # NearestFloatOffset(net)

\* C5: after a successful initialisation each of VAO, VBO and shaderProgram
\* is released exactly once, only after the loop has exited, and the window
\* is destroyed and GLFW terminated only after the three releases.
C5_ReleaseOnce ==
    /\ \A r \in Resources : releases[r] <= 1
    /\ \A r \in Resources :
         (releases[r] > 0 \/ gpu[r] = "deleted") => pc \in CleanupSteps \cup {"done"}
    /\ pc \in LoopSteps => \A r \in Resources : gpu[r] = "live" /\ releases[r] = 0
    /\ (glewState = "ok" /\ (window = "destroyed" \/ glfwState = "terminated"))
         => \A r \in Resources : releases[r] = 1 /\ gpu[r] = "deleted"
    /\ exitStatus = <<0>>
         => /\ \A r \in Resources : releases[r] = 1
            /\ window = "destroyed"
            /\ glfwState = "terminated"

\* a run that drew at least one frame and returned 0
C5_Witness ==
    /\ exitStatus = <<0>>
    /\ drawn
    /\ \A r \in Resources : releases[r] = 1

\* C6: a failed initialisation step ends the process at once with status -1:
\* no later initialisation step has run, no GPU resource or shader exists, no
\* frame was executed, and nothing runs afterwards.
C6_InitFailureExits ==
    /\ []( (glfwState = "failed" \/ glewState = "failed"
              \/ "Failed to create GLFW window" \in errLog)
            => (pc = "done" /\ exitStatus = <<-1>>) )
    /\ []( exitStatus = <<-1>> =>
            /\ \A r \in Resources : gpu[r] = "none"
            /\ \A t \in ShaderTypes : shaderObj[t] = "none"
            /\ shaderProgram = 0
            /\ uploaded = <<>> /\ ~drawn
            /\ glewState # "ok"
            /\ glfwState = "failed" => (window = "none" /\ glewState = "uninit")
            /\ window = "none" => glewState = "uninit" )
    /\ [][pc # "done"]_vars

\* the last step that can fail did: GLFW and the window were set up, GLEW failed
C6_Witness ==
    /\ exitStatus = <<-1>>
    /\ glewState = "failed"
    /\ "Failed to initialize GLEW" \in errLog

\* C7: compile and link failures are not fatal: the handles are returned, both
\* shader objects are deleted after the link attempt in every case, and main
\* goes on into the render loop.
C7_ShaderFailureNonFatal ==
    /\ []( (CompileFailed \/ LinkFailed) => exitStatus # <<-1>> )
    /\ []( shaderObj["GL_VERTEX_SHADER"] # "none" => vertexShader = VertexShaderName )
    /\ []( shaderObj["GL_FRAGMENT_SHADER"] # "none" => fragmentShader = FragmentShaderName )
    /\ []( gpu["shaderProgram"] # "none" => shaderProgram = ProgramName )
    /\ []( (gpu["shaderProgram"] # "none" /\ pc # "deleteShaders")
            => \A t \in ShaderTypes : shaderObj[t] = "deleted" )
    /\ [][ /\ pc \in {"compileVertex", "compileFragment", "linkProgram",
                      "deleteShaders"} => pc' # "done"
           /\ pc = "useProgram" => pc' = "loopCheck" ]_vars

\* a frame was drawn with a program whose shaders did not compile or link
C7_Witness ==
    /\ CompileFailed
    /\ LinkFailed
    /\ pc = "swapPoll"
    /\ drawn
    /\ \A t \in ShaderTypes : shaderObj[t] = "deleted"

\* the step that follows each step of a frame
FrameSuccessor(p) == CASE p = "readTime" -> "pollEscape"
                       [] p = "pollEscape" -> "pollLeft"
                       [] p = "pollLeft" -> "pollRight"
                       [] p = "pollRight" -> "pollSpace"
                       [] p = "pollSpace" -> "handleJump"
                       [] p = "handleJump" -> "uploadTransform"
                       [] p = "uploadTransform" -> "draw"
                       [] p = "draw" -> "swapPoll"
                       [] p = "swapPoll" -> "loopCheck"

\* C8: the loop exits at the first loop-condition check after a close request
\* and at no other time; the frame that sees Escape runs all its remaining
\* steps (offset update, jump update, draw, present) and no frame follows it;
\* a close request is never cleared.
C8_LoopExit ==
    /\ []( pc \in CleanupSteps => (shouldClose /\ (uploaded # <<>> => drawn)) )
    /\ [][ /\ pc = "loopCheck" => pc' = IF shouldClose THEN "deleteVAO" ELSE "readTime"
           /\ pc \in FrameSteps => pc' = FrameSuccessor(pc)
           /\ (pc = "pollEscape" /\ "ESCAPE" \in keys) => shouldClose'
           /\ shouldClose => shouldClose' ]_vars

\* the end of a frame that began open, saw Escape with Left and Space held,
\* moved the triangle, started the jump and drew
C8_Witness ==
    /\ pc = "swapPoll"
    /\ keys = {"ESCAPE", "LEFT", "SPACE"}
    /\ shouldClose
    /\ drawn
    /\ isJumping
    /\ uploaded[3] = translationX

\* C9: the uploaded transform is the translation matrix of
\* (translationX, translationY + jumpHeight) with translationY = -0.75: 1 at
\* 0, 5, 10, 15, the offsets at 3 and 7, 0 elsewhere; the rotation matrix and
\* rotationAngle contribute nothing.
C9_UploadedIsTranslation ==
    /\ translationY = InitialY
    /\ rotationAngle = 0
    /\ pc \in {"draw", "swapPoll"} =>
         /\ DOMAIN uploaded = 0..15
         /\ \A i \in 0..15 :
              uploaded[i] = IF i \in {0, 5, 10, 15} THEN One
                            ELSE IF i = 3 THEN translationX
                            ELSE IF i = 7 THEN RoundF(InitialY + jumpHeight)
                            ELSE 0

\* an upload made in mid-jump with the triangle moved off its start position
C9_Witness ==
    /\ pc = "draw"
    /\ isJumping
    /\ jumpHeight > 0
    /\ net # 0
    /\ uploaded[7] = InitialY + jumpHeight

\* C10: while frames keep running and the clock keeps advancing, an active
\* jump is followed by a frame that sets isJumping = FALSE and jumpHeight = 0
\* whatever keys are held (the loop may instead be closed); the jump ends only
\* in the jump-update step, which comes after the Space poll of its frame, so
\* a held Space restarts a jump only in a later frame.
C10_JumpEnds ==
    /\ (isJumping /\ jumpStartTime + jumpDuration <= MaxTime)
          ~> ((~isJumping /\ jumpHeight = 0) \/ shouldClose)
    /\ [][ /\ (isJumping /\ ~isJumping')
               => (pc = "handleJump" /\ pc' = "uploadTransform" /\ jumpHeight' = 0)
           /\ (~isJumping /\ isJumping') => pc = "pollSpace" ]_vars

\* the frame that ended a jump while Space was held: the jump was not restarted
C10_Witness ==
    /\ pc = "uploadTransform"
    /\ "SPACE" \in keys
    /\ ~isJumping
    /\ jumpHeight = 0
    /\ jumpStartTime > 0
    /\ currentFrame >= jumpStartTime + jumpDuration

====
